---- MODULE Spec2Model ----
(***************************************************************************)
(* String conversion traits of libpqxx: pqxx::from_string / to_string,     *)
(* enum_traits, and the string_traits specialisation for optional-like     *)
(* wrapper types (std::optional, std::unique_ptr, std::shared_ptr, raw     *)
(* pointers) together with the compile-time classification that selects    *)
(* null_value<T>() and make_optional<T>().                                 *)
(***************************************************************************)
EXTENDS Integers, Sequences, FiniteSets, TLC

VARIABLES
  ty,      \* the type a template is being instantiated with (capabilities)
  inst,    \* what the last instantiation resolved to
  bvar,    \* a bool variable of the calling program
  col,     \* a variable of the plain enum `colour`
  wth,     \* a variable of the class enum `weather`
  wrap,    \* the wrapper variables of the calling program: name -> address or NULL
  mem,     \* memory: address -> value stored there
  live,    \* addresses that hold a living object
  wrapR,   \* the same program run with reconstruct-on-parse: wrappers
  memR,    \*   its memory
  liveR,   \*   its living objects
  last,    \* the last library call: what was called, with what, and how it ended
  scope    \* the variables the calling program declares

vars ==
  <<ty, inst, bvar, col, wth, wrap, mem, live, wrapR, memR, liveR, last, scope>>

----------------------------------------------------------------------------
(* Bounds of the model.                                                    *)

\* Number of heap addresses the allocator can hand out.
MaxAddr == 2

\* Largest and smallest value of the 32-bit int.
IntMax == 2147483647
IntMin == (0 - IntMax) - 1

NULL == 0

----------------------------------------------------------------------------
(* Text.  A std::string_view is a data pointer plus characters; a null     *)
(* view (data() == nullptr) differs from an empty but present one.         *)

NullText == [null |-> TRUE, s |-> <<>>]
Txt(s) == [null |-> FALSE, s |-> s]

Digits == {"0", "1", "2", "3", "4", "5", "6", "7", "8", "9"}

DigitVal(c) ==
  CASE c = "0" -> 0 [] c = "1" -> 1 [] c = "2" -> 2 [] c = "3" -> 3
    [] c = "4" -> 4 [] c = "5" -> 5 [] c = "6" -> 6 [] c = "7" -> 7
    [] c = "8" -> 8 [] c = "9" -> 9

DigitChar(d) ==
  CASE d = 0 -> "0" [] d = 1 -> "1" [] d = 2 -> "2" [] d = 3 -> "3"
    [] d = 4 -> "4" [] d = 5 -> "5" [] d = 6 -> "6" [] d = 7 -> "7"
    [] d = 8 -> "8" [] d = 9 -> "9"

Fail == [ok |-> FALSE, val |-> 0]
Ok(v) == [ok |-> TRUE, val |-> v]

----------------------------------------------------------------------------
(* string_traits<int>: digits only, one optional leading minus sign, no    *)
(* whitespace; a magnitude outside the type's range is a failure.          *)

RECURSIVE ParsePos(_, _)
ParsePos(s, acc) ==
  IF s = <<>> THEN Ok(acc)
  ELSE IF Head(s) \notin Digits THEN Fail
  ELSE LET d == DigitVal(Head(s)) IN
       IF acc > (IntMax - d) \div 10 THEN Fail
       ELSE ParsePos(Tail(s), acc * 10 + d)

RECURSIVE ParseNeg(_, _)
ParseNeg(s, acc) ==
  IF s = <<>> THEN Ok(acc)
  ELSE IF Head(s) \notin Digits THEN Fail
  ELSE LET d == DigitVal(Head(s)) IN
       IF acc < ((IntMin + d) + 9) \div 10 THEN Fail
       ELSE ParseNeg(Tail(s), acc * 10 - d)

int_from_string(s) ==
  IF s = <<>> THEN Fail
  ELSE IF Head(s) = "-"
       THEN (IF Len(s) = 1 THEN Fail ELSE ParseNeg(Tail(s), 0))
       ELSE ParsePos(s, 0)

RECURSIVE PosDigits(_)
PosDigits(n) ==
  IF n < 10 THEN <<DigitChar(n)>>
  ELSE PosDigits(n \div 10) \o <<DigitChar(n % 10)>>

RECURSIVE NegDigits(_)
NegDigits(n) ==
  LET q == (n + 9) \div 10
      d == q * 10 - n
  IN IF q = 0 THEN <<DigitChar(d)>> ELSE NegDigits(q) \o <<DigitChar(d)>>

int_to_string(n) ==
  IF n < 0 THEN <<"-">> \o NegDigits(n) ELSE PosDigits(n)

----------------------------------------------------------------------------
(* string_traits<unsigned int>: digits only, no sign, no whitespace; a     *)
(* value above 4294967295 is a failure.  A 32-bit unsigned value is held   *)
(* as two 16-bit halves, value = hi * Limb + lo.                           *)

Limb == 65536

UInt(n) == [hi |-> n \div Limb, lo |-> n % Limb]

RECURSIVE ParseU(_, _)
ParseU(s, acc) ==
  IF s = <<>> THEN Ok(acc)
  ELSE IF Head(s) \notin Digits THEN Fail
  ELSE LET low == acc.lo * 10 + DigitVal(Head(s))
           high == acc.hi * 10 + low \div Limb
       IN IF high >= Limb THEN Fail
          ELSE ParseU(Tail(s), [hi |-> high, lo |-> low % Limb])

uint_from_string(s) ==
  IF s = <<>> THEN Fail ELSE ParseU(s, UInt(0))

RECURSIVE UDigits(_)
UDigits(u) ==
  LET t == (u.hi % 10) * Limb + u.lo
      q == [hi |-> u.hi \div 10, lo |-> t \div 10]
  IN IF q = UInt(0) THEN <<DigitChar(t % 10)>>
     ELSE UDigits(q) \o <<DigitChar(t % 10)>>

uint_to_string(u) == UDigits(u)

----------------------------------------------------------------------------
(* string_traits<bool>.                                                    *)

TrueTexts ==
  { <<"t","r","u","e">>, <<"T","R","U","E">>, <<"t">>, <<"T">>, <<"1">> }
FalseTexts ==
  { <<"f","a","l","s","e">>, <<"F","A","L","S","E">>, <<"f">>, <<"F">>, <<"0">> }

bool_from_string_lenient(s) ==
  IF s \in TrueTexts THEN Ok(TRUE)
  ELSE IF s \in FalseTexts \/ s = <<>> THEN Ok(FALSE)
  ELSE Fail

bool_from_string(s) ==
  IF s \in TrueTexts THEN Ok(TRUE)
  ELSE IF s \in FalseTexts THEN Ok(FALSE)
  ELSE Fail

bool_to_string(v) ==
  IF v THEN <<"t","r","u","e">> ELSE <<"f","a","l","s","e">>

----------------------------------------------------------------------------
(* Capability introspection (type_utils.hxx).  A type is described by the  *)
(* facts the predicates ask the compiler about.                            *)
(*   kind             which of inner*, unique_ptr<inner>, shared_ptr<inner>*)
(*                    the type is the same as, or "other"                  *)
(*   is_array         std::is_array<T>                                     *)
(*   has_deref        *std::declval<T>() is well-formed                    *)
(*   bool_constr      std::is_constructible<bool, T>                       *)
(*   nullopt_assign   std::is_assignable<T, std::nullopt_t>                *)
(*   nullptr_assign   std::is_assignable<T, std::nullptr_t>                *)
(*   traits_null      pqxx::string_traits<T>::null() is well-formed        *)
(*   from_inner       T(inner) is well-formed                              *)

TypeRec(k, arr, der, bc, no, np, tn, fi) ==
  [kind |-> k, is_array |-> arr, has_deref |-> der, bool_constr |-> bc,
   nullopt_assign |-> no, nullptr_assign |-> np, traits_null |-> tn,
   from_inner |-> fi]

\* The wrapper types the library names, with an int inside.
StdOptional  == TypeRec("other",      FALSE, TRUE, TRUE, TRUE,  FALSE, TRUE, TRUE)
StdUniquePtr == TypeRec("unique_ptr", FALSE, TRUE, TRUE, FALSE, TRUE,  TRUE, FALSE)
StdSharedPtr == TypeRec("shared_ptr", FALSE, TRUE, TRUE, FALSE, TRUE,  TRUE, FALSE)
\* int *: std::is_assignable<int *, std::nullptr_t> asks whether an rvalue
\* int * can be assigned to, which no scalar can; (int *)(i) is a
\* well-formed cast, hence from_inner.
RawPointer   == TypeRec("raw_ptr",    FALSE, TRUE, TRUE, FALSE, FALSE, TRUE, TRUE)

TypeKinds == {"other", "raw_ptr", "unique_ptr", "shared_ptr"}

\* Every type a user may instantiate the templates with.  An array decays
\* for * and for bool, and is assignable from nothing.  A pointer, raw or
\* smart, dereferences and tests as bool; no rvalue scalar is assignable, so
\* a raw pointer takes neither std::nullopt nor nullptr, while the smart
\* pointers take nullptr.  Whether T(inner) is well-formed depends on the
\* contained type: it is for int * through a cast, and for a smart pointer
\* whose contained type converts to a pointer to itself.  A type that is
\* dereferenceable and bool-constructible gets the wrapper string_traits,
\* which declares null().
AllTypes ==
  { t \in [kind : TypeKinds, is_array : BOOLEAN, has_deref : BOOLEAN,
           bool_constr : BOOLEAN, nullopt_assign : BOOLEAN,
           nullptr_assign : BOOLEAN, traits_null : BOOLEAN,
           from_inner : BOOLEAN] :
      /\ t.is_array => (t.kind = "other" /\ t.has_deref /\ ~t.nullopt_assign
                        /\ ~t.nullptr_assign /\ ~t.from_inner)
      /\ t.kind # "other" => (t.has_deref /\ t.bool_constr /\ ~t.nullopt_assign)
      /\ t.kind = "raw_ptr" => ~t.nullptr_assign
      /\ t.kind \in {"unique_ptr", "shared_ptr"} => t.nullptr_assign
      /\ (~t.is_array /\ t.has_deref /\ t.bool_constr) => t.traits_null }

is_derefable(t) == ~t.is_array /\ t.has_deref

is_optional(t) == is_derefable(t) /\ t.bool_constr

takes_std_nullopt(t) == t.nullopt_assign

\* The null_value<T>() overloads whose enable_if condition holds for T.
null_value_rules(t) ==
  (IF is_optional(t) /\ ~takes_std_nullopt(t) /\ t.nullptr_assign
   THEN {"nullptr"} ELSE {})
  \cup (IF ~is_optional(t) /\ ~takes_std_nullopt(t) /\ t.traits_null
        THEN {"traits_null"} ELSE {})
  \cup (IF takes_std_nullopt(t) THEN {"nullopt"} ELSE {})

\* make_optional without the exclusion of raw pointers.
make_optional_overloads_no_raw_guard(t) ==
  (IF t.has_deref /\ t.from_inner THEN {"direct"} ELSE {})
  \cup (IF t.has_deref /\ t.kind = "unique_ptr" THEN {"unique"} ELSE {})
  \cup (IF t.has_deref /\ t.kind = "shared_ptr" THEN {"shared"} ELSE {})

\* The make_optional<T>(v) overloads whose enable_if condition holds for T.
\* inner_type<T> must be well-formed for any of them.
make_optional_overloads(t) ==
  (IF t.has_deref /\ t.kind # "raw_ptr" /\ t.from_inner
   THEN {"direct"} ELSE {})
  \cup (IF t.has_deref /\ t.kind = "unique_ptr" THEN {"unique"} ELSE {})
  \cup (IF t.has_deref /\ t.kind = "shared_ptr" THEN {"shared"} ELSE {})

----------------------------------------------------------------------------
(* The record of a library call.                                           *)
(*   op        "pqxx_from_string", "traits_from_string", "to_string", or a *)
(*             step of the calling program                                 *)
(*   target    the variable converted                                      *)
(*   text      the text given (from_string)                                *)
(*   outcome   "ok", "runtime_error", "conversion_error" (ParseError),     *)
(*             "null_conversion", "ill_formed" (does not compile), or, of  *)
(*             a call whose behaviour is undefined, "garbage" (it returns  *)
(*             a text the language leaves open: any text at all) or        *)
(*             "crash" (the program traps and stops)                       *)
(*   ret       the string returned (to_string)                             *)
(*   called    whether string_traits<T>::from_string was entered           *)
(*   strategy  how the wrapper got its value: "null", "reuse", or the      *)
(*             make_optional overload                                      *)
(*   pre       the target wrapper's address before the call                *)

Call(op, target, text, outcome, ret, called, strategy, pre) ==
  [op |-> op, target |-> target, text |-> text, outcome |-> outcome,
   ret |-> ret, called |-> called, strategy |-> strategy, pre |-> pre]

NoCall == Call("none", "none", NullText, "ok", <<>>, FALSE, "none", NULL)

\* pqxx::from_string's guard: is the text null?
NullGuardEmpty(text) == text.s = <<>>

NullGuard(text) == text.null

----------------------------------------------------------------------------
(* enum_traits<ENUM>.  An enum value is held as a value of its underlying  *)
(* type; ENUM(tmp) and underlying_type(obj) convert between the two.       *)
(*   enum colour { red, green, blue };        underlying type unsigned int *)
(*   enum class weather { hot, cold, wet };   underlying type int          *)

Enumerators == {0, 1, 2}   \* red/hot, green/cold, blue/wet

\* std::underlying_type<ENUM>::type
UnderlyingType(E) == IF E = "colour" THEN "unsigned int" ELSE "int"

\* The values of the enumeration.  An enum with no fixed underlying type
\* has the values of the smallest bit-field that holds its enumerators, for
\* colour 0..3; an enum class has every value of its underlying type.
InValueRange(E, v) == IF E = "colour" THEN v.hi = 0 /\ v.lo <= 3 ELSE TRUE

\* ENUM(tmp): the object holds the integer.  Outside the values of the
\* enumeration the cast has undefined behaviour; every build stores the
\* integer all the same, and it is the later use of the object, in
\* to_string, that goes astray.
EnumCast(tmp) == tmp
Underlying(obj) == obj

\* string_traits<underlying_type>::from_string and to_string
underlying_from_string(U, s) ==
  IF U = "int" THEN int_from_string(s) ELSE uint_from_string(s)

underlying_to_string(U, v) ==
  IF U = "int" THEN int_to_string(v) ELSE uint_to_string(v)

\* enum_traits::from_string: returns how the call ends and what obj holds.
enum_from_string(E, text, obj) ==
  LET p == underlying_from_string(UnderlyingType(E), text.s) IN
  IF p.ok THEN [outcome |-> "ok", obj |-> EnumCast(p.val)]
  ELSE [outcome |-> "conversion_error", obj |-> obj]

\* What a call with undefined behaviour can do besides what it would do
\* were the behaviour defined: return any text, or trap.
Undefined == { [outcome |-> "garbage", ret |-> <<>>],
               [outcome |-> "crash", ret |-> <<>>] }

\* enum_traits::to_string: the ways the call can end.  Of an object that
\* holds no value of the enumeration the behaviour is undefined: a build
\* may print the integer the object holds, print anything else, or trap.
enum_to_string(E, obj) ==
  { [outcome |-> "ok",
     ret |-> underlying_to_string(UnderlyingType(E), Underlying(obj))] }
  \cup (IF InValueRange(E, obj) THEN {} ELSE Undefined)

----------------------------------------------------------------------------
(* The wrapper variables of the calling program.                           *)
(*   o   std::optional<int>          oo  std::optional<std::optional<int>> *)
(*   u   std::unique_ptr<int>        s1, s2  std::shared_ptr<int>          *)
(*   r   int *                                                             *)
(* A wrapper holds the address of its contained instance, or NULL.  An     *)
(* optional keeps its instance in its own storage.                         *)

Wrappers == {"o", "oo", "u", "s1", "s2", "r"}
Shared == {"s1", "s2"}

Kind(w) ==
  CASE w \in {"o", "oo"} -> "optional"
    [] w = "u" -> "unique_ptr"
    [] w \in Shared -> "shared_ptr"
    [] w = "r" -> "raw_ptr"

TypeOf(w) ==
  CASE Kind(w) = "optional" -> StdOptional
    [] Kind(w) = "unique_ptr" -> StdUniquePtr
    [] Kind(w) = "shared_ptr" -> StdSharedPtr
    [] Kind(w) = "raw_ptr" -> RawPointer

\* inner_type<T>
InnerType(w) == IF w = "oo" THEN "optional_int" ELSE "int"

HeapAddrs == 1 .. MaxAddr
StorageAddr(w) == IF w = "o" THEN MaxAddr + 1 ELSE MaxAddr + 2
Addrs == 1 .. (MaxAddr + 2)

NoInt == [has |-> FALSE, val |-> 0]       \* an empty std::optional<int>
SomeInt(v) == [has |-> TRUE, val |-> v]

\* What an address holds while no object lives there.
Blank(a) == IF a = StorageAddr("oo") THEN NoInt ELSE 0

State(wr, me, li) == [wrap |-> wr, mem |-> me, live |-> li]
NewState == State([w \in Wrappers |-> NULL], [a \in Addrs |-> Blank(a)], {})

Has(w, st) == st.wrap[w] # NULL
Deref(w, st) == st.mem[st.wrap[w]]
\* The wrapper is null or refers to a living object.
Valid(w, st) == st.wrap[w] = NULL \/ st.wrap[w] \in st.live

----------------------------------------------------------------------------
(* string_traits<inner_type<T>>: the contained type's own descriptor.      *)

inner_is_null(I, v) == IF I = "int" THEN FALSE ELSE (~v.has \/ FALSE)

\* Parses into a default-constructed `I inner`.
inner_from_string(I, text) ==
  IF I = "int" THEN int_from_string(text.s)
  ELSE IF text.null THEN Ok(NoInt)
  ELSE LET p == int_from_string(text.s) IN
       IF p.ok THEN Ok(SomeInt(p.val)) ELSE Fail

inner_to_string(I, v) ==
  IF I = "int" THEN int_to_string(v) ELSE int_to_string(v.val)

----------------------------------------------------------------------------
(* string_traits<T> for optional-like T.                                   *)

\* is_null that looks at the wrapper alone.
wrapper_is_null_shallow(w, st) == ~Has(w, st)

\* is_null(v): not v || string_traits<I>::is_null(*v)
wrapper_is_null(w, st) ==
  ~Has(w, st) \/ inner_is_null(InnerType(w), Deref(w, st))

\* The instance at address a dies.
Destroy(a, st) ==
  [st EXCEPT !.live = @ \ {a}, !.mem = [@ EXCEPT ![a] = Blank(a)]]

\* Wrapper w lets go of what it holds, as its assignment operators do: an
\* optional destroys its instance, a unique_ptr deletes it, a shared_ptr
\* deletes it when no other handle shares it, a raw pointer forgets it.
Release(w, st) ==
  LET a == st.wrap[w]
      gone == [st EXCEPT !.wrap = [@ EXCEPT ![w] = NULL]]
  IN IF a = NULL \/ a \notin st.live THEN gone
     ELSE CASE Kind(w) = "optional" -> Destroy(a, gone)
            [] Kind(w) = "unique_ptr" -> Destroy(a, gone)
            [] Kind(w) = "shared_ptr" ->
                 IF \E x \in Shared \ {w} : st.wrap[x] = a THEN gone
                 ELSE Destroy(a, gone)
            [] Kind(w) = "raw_ptr" -> gone

\* null(): T built from internal::null_value<T>(), nullptr or std::nullopt,
\* either way a wrapper that holds nothing; ill-formed unless exactly one
\* null_value overload is enabled for T.
traits_null(w) ==
  LET rules == null_value_rules(TypeOf(w)) IN
  IF Cardinality(rules) = 1
  THEN [outcome |-> "ok", val |-> NULL, rule |-> CHOOSE x \in rules : TRUE]
  ELSE [outcome |-> "ill_formed", val |-> NULL, rule |-> "none"]

\* obj = null(), where null() is T(null_value<T>()): nullptr or nullopt.
assign_null(w, st) == Release(w, st)

\* Where make_optional<T>(v) puts the new instance: an optional holds it in
\* its own storage, the smart pointers at newly allocated address a, and a
\* direct T(v) for a pointer T is the integer reinterpreted as an address.
MadeAddr(w, a, v, how) ==
  IF how = "direct" THEN (IF Kind(w) = "optional" THEN StorageAddr(w) ELSE v)
  ELSE a

\* obj = internal::make_optional<T>(inner)
assign_made(w, v, a, how, st) ==
  LET at == MadeAddr(w, a, v, how)
      rel == Release(w, st)
  IN IF at \in Addrs
     THEN [rel EXCEPT !.wrap = [@ EXCEPT ![w] = at],
                      !.mem = [@ EXCEPT ![at] = v],
                      !.live = @ \cup {at}]
     ELSE [rel EXCEPT !.wrap = [@ EXCEPT ![w] = at]]

\* An assignment that replaces the instance by a newly made one.
assign_through_fresh(w, v, st) ==
  LET free == HeapAddrs \ st.live
      a == IF free = {} THEN st.wrap[w] ELSE CHOOSE x \in free : TRUE
  IN IF Kind(w) = "optional" THEN [st EXCEPT !.mem = [@ EXCEPT ![st.wrap[w]] = v]]
     ELSE assign_made(w, v, a, "unique", st)

\* *obj = inner
assign_through(w, v, st) ==
  [st EXCEPT !.mem = [@ EXCEPT ![st.wrap[w]] = v]]

\* The templates a use of string_traits<T>::from_string instantiates
\* resolve: null_value<T>() and make_optional<T>(inner) each have exactly
\* one viable overload.
Instantiable(w) ==
  /\ Cardinality(null_value_rules(TypeOf(w))) = 1
  /\ Cardinality(make_optional_overloads(TypeOf(w))) = 1

Strategy(w) == CHOOSE h \in make_optional_overloads(TypeOf(w)) : TRUE

Result(st, outcome, strategy) ==
  [st |-> st, outcome |-> outcome, strategy |-> strategy, called |-> TRUE]

\* A non-null branch that clears the target when the contained parse fails.
from_string_nonnull_clearing(w, text, a, st) ==
  LET p == inner_from_string(InnerType(w), text) IN
  IF ~p.ok THEN Result(assign_null(w, st), "conversion_error", "none")
  ELSE IF Has(w, st) THEN Result(assign_through(w, p.val, st), "ok", "reuse")
  ELSE Result(assign_made(w, p.val, a, Strategy(w), st), "ok", Strategy(w))

\* The else branch of from_string: parse into a local, then store it.
from_string_nonnull(w, text, a, st) ==
  LET p == inner_from_string(InnerType(w), text) IN
  IF ~p.ok THEN Result(st, "conversion_error", "none")
  ELSE IF Has(w, st) THEN Result(assign_through(w, p.val, st), "ok", "reuse")
  ELSE Result(assign_made(w, p.val, a, Strategy(w), st), "ok", Strategy(w))

\* string_traits<T>::from_string(str, obj); a is the address the allocator
\* hands out should the call allocate.
traits_from_string(w, text, a, st) ==
  IF ~Instantiable(w) THEN Result(st, "ill_formed", "none")
  ELSE IF text.null THEN Result(assign_null(w, st), "ok", "null")
  ELSE from_string_nonnull(w, text, a, st)

\* The same with full reconstruction: every parse of non-null text assigns
\* a newly made wrapper to the target.
traits_from_string_reconstruct(w, text, a, st) ==
  IF ~Instantiable(w) THEN Result(st, "ill_formed", "none")
  ELSE IF text.null THEN Result(assign_null(w, st), "ok", "null")
  ELSE LET p == inner_from_string(InnerType(w), text) IN
       IF ~p.ok THEN Result(st, "conversion_error", "none")
       ELSE Result(assign_made(w, p.val, a, Strategy(w), st), "ok", Strategy(w))

\* string_traits<T>::to_string(Obj)
traits_to_string(w, st) ==
  IF wrapper_is_null(w, st) THEN [outcome |-> "null_conversion", ret |-> <<>>]
  ELSE [outcome |-> "ok", ret |-> inner_to_string(InnerType(w), Deref(w, st))]

----------------------------------------------------------------------------
(* The entry points pqxx::from_string and pqxx::to_string.                 *)

\* pqxx::from_string(str, obj) for a wrapper obj.
pqxx_from_string(w, text, a, st) ==
  IF ~Instantiable(w) THEN Result(st, "ill_formed", "none")
  ELSE IF NullGuard(text)
       THEN [Result(st, "runtime_error", "none") EXCEPT !.called = FALSE]
       ELSE traits_from_string(w, text, a, st)

\* string_traits<T>::from_string for bool and for the two enums.
scalar_traits_from_string(T, text, obj) ==
  IF T = "bool"
  THEN LET p == bool_from_string(text.s) IN
       IF p.ok THEN [outcome |-> "ok", obj |-> p.val]
       ELSE [outcome |-> "conversion_error", obj |-> obj]
  ELSE enum_from_string(T, text, obj)

\* pqxx::from_string(str, obj) for a bool or enum obj.
pqxx_from_string_scalar(T, text, obj) ==
  IF NullGuard(text)
  THEN [outcome |-> "runtime_error", obj |-> obj, called |-> FALSE]
  ELSE LET r == scalar_traits_from_string(T, text, obj) IN
       [outcome |-> r.outcome, obj |-> r.obj, called |-> TRUE]

\* pqxx::to_string(obj) for a bool or enum obj: the ways the call can end.
pqxx_to_string_scalar(T, obj) ==
  IF T = "bool" THEN { [outcome |-> "ok", ret |-> bool_to_string(obj)] }
  ELSE enum_to_string(T, obj)

----------------------------------------------------------------------------
(* Texts the calling program passes.                                       *)

WrapTexts ==
  { NullText, Txt(<<>>), Txt(<<"7">>), Txt(<<"-", "1">>), Txt(<<"7", "x">>) }

\* The programs considered: each declares one family of variables that can
\* refer to one another's instances.
Scopes == { {"o", "oo", "r"}, {"u", "r"}, {"s1", "s2", "r"}, {"colour"} }

IntTexts ==
  { <<"2">>, <<"7">>, <<"-", "1">>, <<"1", "2">>, <<"-", "0">>,
    <<"2", "1", "4", "7", "4", "8", "3", "6", "4", "7">>,
    <<"2", "1", "4", "7", "4", "8", "3", "6", "4", "8">>,
    <<"-", "2", "1", "4", "7", "4", "8", "3", "6", "4", "8">>,
    <<"-", "2", "1", "4", "7", "4", "8", "3", "6", "4", "9">>,
    <<"-">>, <<"2", " ">>, <<" ", "2">>, <<"2", ".", "0">>, <<"0", "x", "2">> }

BoolJunk ==
  { <<>>, <<"m", "a", "y", "b", "e">>, <<" ", "t">>, <<"t", " ">>,
    <<"T", "r", "u", "e">>, <<"y">>, <<"t", "r", "u", "e", " ">>,
    <<"n", "o">>, <<"0", "0">> }

ScalarTexts ==
  {NullText} \cup { Txt(s) : s \in TrueTexts \cup FalseTexts \cup BoolJunk \cup IntTexts }

Scalars == {"bool", "colour", "weather"}
ScalarVal(T) == CASE T = "bool" -> bvar [] T = "colour" -> col [] T = "weather" -> wth

----------------------------------------------------------------------------
(* Steps.                                                                  *)

\* The program declares variable x and has not crashed.
InScope(x) == x \in scope /\ last.outcome # "crash"

Cur == State(wrap, mem, live)
CurR == State(wrapR, memR, liveR)

OtherVars == <<ty, inst, scope>>
ScalarVars == <<bvar, col, wth>>
RealVars == <<wrap, mem, live>>
ShadowVars == <<wrapR, memR, liveR>>

\* The addresses the allocator may hand out to a call that allocates.
AllocChoices(needs, st) == IF needs THEN HeapAddrs \ st.live ELSE {NULL}

Parses(w, text) ==
  Instantiable(w) /\ ~text.null /\ inner_from_string(InnerType(w), text).ok

NeedsAlloc(w, text, st) ==
  Parses(w, text) /\ ~Has(w, st) /\ Kind(w) \in {"unique_ptr", "shared_ptr"}

NeedsAllocR(w, text) ==
  Parses(w, text) /\ Kind(w) \in {"unique_ptr", "shared_ptr"}

Set(st) == wrap' = st.wrap /\ mem' = st.mem /\ live' = st.live
SetR(st) == wrapR' = st.wrap /\ memR' = st.mem /\ liveR' = st.live

\* The program calls string_traits<T>::from_string(text, w).
RealTraitsFromString(w, text) ==
  \E a \in AllocChoices(NeedsAlloc(w, text, Cur), Cur) :
    LET res == traits_from_string(w, text, a, Cur) IN
    /\ Set(res.st)
    /\ last' = Call("traits_from_string", w, text, res.outcome, <<>>,
                    res.outcome # "ill_formed", res.strategy, wrap[w])

TraitsFromString(w, text) ==
  /\ InScope(w)
  /\ RealTraitsFromString(w, text)
  /\ UNCHANGED <<OtherVars, ScalarVars, ShadowVars>>

\* The program calls pqxx::from_string(text, w).
PqxxFromString(w, text) ==
  /\ InScope(w)
  /\ \E a \in AllocChoices(NeedsAlloc(w, text, Cur), Cur) :
       LET res == pqxx_from_string(w, text, a, Cur) IN
       /\ Set(res.st)
       /\ last' = Call("pqxx_from_string", w, text, res.outcome, <<>>,
                       res.called /\ res.outcome # "ill_formed",
                       res.strategy, wrap[w])
  /\ UNCHANGED <<OtherVars, ScalarVars, ShadowVars>>

\* to_string through a pointer whose instance is gone reads freed memory:
\* undefined behaviour.  What comes back is the text of whatever the address
\* holds by then, which the language leaves open, or the access traps.
DanglingToString == Undefined

\* The program calls pqxx::to_string(w).  Through a wrapper whose instance
\* is gone the call reads freed memory.
PqxxToString(w) ==
  /\ InScope(w)
  /\ \E res \in (IF Valid(w, Cur) THEN {traits_to_string(w, Cur)}
                  ELSE DanglingToString) :
       last' = Call("to_string", w, NullText, res.outcome, res.ret, TRUE,
                    "none", wrap[w])
  /\ UNCHANGED <<OtherVars, ScalarVars, RealVars, ShadowVars>>

\* The program calls string_traits<T>::null() for the type of wrapper w.
TraitsNull(w) ==
  /\ InScope(w)
  /\ LET res == traits_null(w) IN
     last' = Call("traits_null", w, NullText, res.outcome, <<>>, FALSE,
                  res.rule, wrap[w])
  /\ UNCHANGED <<OtherVars, ScalarVars, RealVars, ShadowVars>>

\* dst = src for two shared_ptr handles.
share_copy(dst, src, st) ==
  LET rel == Release(dst, st) IN
  [rel EXCEPT !.wrap = [@ EXCEPT ![dst] = st.wrap[src]]]

\* r = src.get(), or r = &*src for the optional.
raw_alias(src, st) == [st EXCEPT !.wrap = [@ EXCEPT !["r"] = st.wrap[src]]]

\* oo = o: oo holds a copy of the optional o, empty or not.
opt_copy(st) ==
  LET v == IF Has("o", st) THEN SomeInt(Deref("o", st)) ELSE NoInt
      at == StorageAddr("oo")
  IN [st EXCEPT !.wrap = [@ EXCEPT !["oo"] = at],
                !.mem = [@ EXCEPT ![at] = v],
                !.live = @ \cup {at}]

RealShareCopy(dst, src) ==
  /\ dst # src
  /\ Set(share_copy(dst, src, Cur))
  /\ last' = Call("share_copy", dst, NullText, "ok", <<>>, FALSE, "none", wrap[dst])

ShareCopy(dst, src) ==
  /\ InScope(dst) /\ InScope(src)
  /\ RealShareCopy(dst, src)
  /\ UNCHANGED <<OtherVars, ScalarVars, ShadowVars>>

RealRawAlias(src) ==
  /\ Set(raw_alias(src, Cur))
  /\ last' = Call("raw_alias", "r", NullText, "ok", <<>>, FALSE, "none", wrap["r"])

RawAlias(src) ==
  /\ InScope(src) /\ InScope("r")
  /\ RealRawAlias(src)
  /\ UNCHANGED <<OtherVars, ScalarVars, ShadowVars>>

RealOptCopy ==
  /\ Set(opt_copy(Cur))
  /\ last' = Call("opt_copy", "oo", NullText, "ok", <<>>, FALSE, "none", wrap["oo"])

OptCopy ==
  /\ InScope("o") /\ InScope("oo")
  /\ RealOptCopy
  /\ UNCHANGED <<OtherVars, ScalarVars, ShadowVars>>

SetScalar(T, v) ==
  /\ bvar' = IF T = "bool" THEN v ELSE bvar
  /\ col' = IF T = "colour" THEN v ELSE col
  /\ wth' = IF T = "weather" THEN v ELSE wth

\* The program calls pqxx::from_string(text, x) for a bool or enum x.
ScalarFromString(T, text) ==
  /\ InScope(T)
  /\ LET res == pqxx_from_string_scalar(T, text, ScalarVal(T)) IN
     /\ SetScalar(T, res.obj)
     /\ last' = Call("pqxx_from_string", T, text, res.outcome, <<>>,
                     res.called, "none", NULL)
  /\ UNCHANGED <<OtherVars, RealVars, ShadowVars>>

\* The program calls pqxx::to_string(x) for a bool or enum x.
ScalarToString(T) ==
  /\ InScope(T)
  /\ \E res \in pqxx_to_string_scalar(T, ScalarVal(T)) :
       last' = Call("to_string", T, NullText, res.outcome, res.ret, TRUE,
                    "none", NULL)
  /\ UNCHANGED <<OtherVars, ScalarVars, RealVars, ShadowVars>>

----------------------------------------------------------------------------
(* Spec: a program that converts wrapper variables and an enum variable.   *)

InitCommon ==
  /\ ty = StdOptional
  /\ inst = [what |-> "none", rules |-> {}]
  /\ wrap = NewState.wrap /\ mem = NewState.mem /\ live = NewState.live
  /\ wrapR = NewState.wrap /\ memR = NewState.mem /\ liveR = NewState.live
  /\ last = NoCall

Init ==
  /\ InitCommon
  /\ scope \in Scopes
  /\ bvar = FALSE /\ col \in {UInt(e) : e \in Enumerators} /\ wth = 0
  /\ ("colour" \notin scope => col = UInt(0))

Next ==
  \/ \E w \in Wrappers, t \in WrapTexts : TraitsFromString(w, t)
  \/ \E w \in Wrappers, t \in WrapTexts : PqxxFromString(w, t)
  \/ \E w \in Wrappers : PqxxToString(w)
  \/ \E w \in Wrappers : TraitsNull(w)
  \/ \E d \in Shared, s \in Shared : ShareCopy(d, s)
  \/ \E s \in {"o", "u", "s1", "s2"} : RawAlias(s)
  \/ OptCopy
  \/ \E t \in WrapTexts : ScalarFromString("colour", t)
  \/ ScalarToString("colour")

Spec == Init /\ [][Next]_vars

----------------------------------------------------------------------------
(* SpecScalar: a program that converts a bool and two enum variables.      *)

InitScalar ==
  /\ InitCommon
  /\ scope = Scalars
  /\ bvar \in BOOLEAN /\ col \in {UInt(e) : e \in Enumerators}
  /\ wth \in Enumerators

NextScalar ==
  \/ \E T \in Scalars, t \in ScalarTexts : ScalarFromString(T, t)
  \/ \E T \in Scalars : ScalarToString(T)

SpecScalar == InitScalar /\ [][NextScalar]_vars

----------------------------------------------------------------------------
(* SpecTypes: the compiler instantiates the templates with a type.         *)

\* The program names a type.
PickType(t) ==
  /\ ty' = t
  /\ inst' = [what |-> "none", rules |-> {}]
  /\ UNCHANGED <<scope, ScalarVars, RealVars, ShadowVars, last>>

\* Overload resolution of internal::null_value<T>().
InstantiateNullValue ==
  /\ inst' = [what |-> "null_value", rules |-> null_value_rules(ty)]
  /\ UNCHANGED <<ty, scope, ScalarVars, RealVars, ShadowVars, last>>

\* Overload resolution of internal::make_optional<T>(inner).
InstantiateMakeOptional ==
  /\ inst' = [what |-> "make_optional", rules |-> make_optional_overloads(ty)]
  /\ UNCHANGED <<ty, scope, ScalarVars, RealVars, ShadowVars, last>>

InitTypes ==
  /\ InitCommon
  /\ scope = {}
  /\ bvar = FALSE /\ col = UInt(0) /\ wth = 0

NextTypes ==
  \/ \E t \in AllTypes : PickType(t)
  \/ InstantiateNullValue
  \/ InstantiateMakeOptional

SpecTypes == InitTypes /\ [][NextTypes]_vars

----------------------------------------------------------------------------
(* SpecEquiv: the wrapper program run twice in step, once with the         *)
(* library's from_string and once with full reconstruction on every parse. *)

TraitsFromStringE(w, text) ==
  /\ InScope(w)
  /\ RealTraitsFromString(w, text)
  /\ \E a \in AllocChoices(NeedsAllocR(w, text), CurR) :
       SetR(traits_from_string_reconstruct(w, text, a, CurR).st)
  /\ UNCHANGED <<OtherVars, ScalarVars>>

ShareCopyE(dst, src) ==
  /\ InScope(dst) /\ InScope(src)
  /\ RealShareCopy(dst, src)
  /\ SetR(share_copy(dst, src, CurR))
  /\ UNCHANGED <<OtherVars, ScalarVars>>

RawAliasE(src) ==
  /\ InScope(src) /\ InScope("r")
  /\ RealRawAlias(src)
  /\ SetR(raw_alias(src, CurR))
  /\ UNCHANGED <<OtherVars, ScalarVars>>

OptCopyE ==
  /\ InScope("o") /\ InScope("oo")
  /\ RealOptCopy
  /\ SetR(opt_copy(CurR))
  /\ UNCHANGED <<OtherVars, ScalarVars>>

InitEquiv ==
  /\ InitCommon
  /\ scope \in Scopes \ {{"colour"}}
  /\ bvar = FALSE /\ col = UInt(0) /\ wth = 0

NextEquiv ==
  \/ \E w \in Wrappers, t \in WrapTexts : TraitsFromStringE(w, t)
  \/ \E d \in Shared, s \in Shared : ShareCopyE(d, s)
  \/ \E s \in {"o", "u", "s1", "s2"} : RawAliasE(s)
  \/ OptCopyE

SpecEquiv == InitEquiv /\ [][NextEquiv]_vars

----------------------------------------------------------------------------
(* Properties.                                                             *)

FromStringOps == {"traits_from_string", "pqxx_from_string"}

\* What a holder sees through wrapper w.
Obs(w, st) ==
  [has |-> Has(w, st),
   val |-> IF Has(w, st) THEN Deref(w, st)
           ELSE IF InnerType(w) = "int" THEN 0 ELSE NoInt]

\* C1: for every optional-like type, whatever it accepts of std::nullopt and
\* nullptr, exactly one null_value<T>() overload is enabled.
C1_ExactlyOneNullRule ==
  (inst.what = "null_value" /\ is_optional(ty)) => Cardinality(inst.rules) = 1

\* C2: for every wrapper type null() yields a wrapper for which is_null
\* holds, and from_string with null text leaves the target null whatever it
\* held before.
C2_NullRoundTrip ==
  /\ last.op = "traits_null"
     => /\ last.outcome = "ok"
        /\ wrapper_is_null(last.target,
             [Cur EXCEPT !.wrap = [@ EXCEPT ![last.target] =
                                     traits_null(last.target).val]])
  /\ (last.op = "traits_from_string" /\ last.text.null)
     => (last.outcome = "ok" /\ wrapper_is_null(last.target, Cur))

\* C3: pqxx::from_string with null text fails at once with an error of its
\* own, never enters string_traits<T>::from_string and leaves obj alone;
\* empty but present text is passed on to string_traits<T>::from_string.
C3_NullTextGuard ==
  [][(last'.op = "pqxx_from_string" /\ last'.outcome # "ill_formed")
     => IF last'.text.null
        THEN /\ last'.outcome = "runtime_error"
             /\ last'.outcome \notin {"conversion_error", "null_conversion"}
             /\ ~last'.called
             /\ UNCHANGED <<wrap, mem, live, col>>
        ELSE last'.called /\ last'.outcome # "runtime_error"]_vars

C3_Witness ==
  /\ last.op = "pqxx_from_string" /\ last.text.null
  /\ last.outcome = "runtime_error"
  /\ last.target = "s1" /\ wrap["s1"] # NULL

\* C4: to_string of a wrapper that is empty or refers to a living instance
\* fails with a null-conversion error exactly when the wrapper holds nothing
\* or holds an instance that is itself null; otherwise it returns the
\* contained value's to_string; either way it changes nothing.
C4_ToStringNull ==
  [][(last'.op = "to_string" /\ last'.target \in Wrappers
      /\ Valid(last'.target, Cur))
     => LET w == last'.target
            isnull == \/ wrap[w] = NULL
                      \/ (InnerType(w) = "optional_int" /\ ~mem[wrap[w]].has)
        IN /\ (last'.outcome = "null_conversion") <=> isnull
           /\ ~isnull =>
                /\ last'.outcome = "ok"
                /\ last'.ret = IF InnerType(w) = "int"
                               THEN int_to_string(mem[wrap[w]])
                               ELSE int_to_string(mem[wrap[w]].val)
           /\ UNCHANGED <<wrap, mem, live>>]_vars

C4_Witness ==
  /\ last.op = "to_string" /\ last.target = "oo"
  /\ wrap["oo"] # NULL /\ ~mem[wrap["oo"]].has
  /\ last.outcome = "null_conversion"

\* C5: from_string with well-formed text on a wrapper that holds an instance
\* assigns the parsed value into that instance: the wrapper keeps its
\* address, nothing is allocated or freed, no wrapper is reassigned.
C5_ReuseOnParse ==
  [][(/\ last'.op \in FromStringOps
      /\ last'.target \in Wrappers
      /\ last'.outcome # "ill_formed"
      /\ ~last'.text.null
      /\ inner_from_string(InnerType(last'.target), last'.text).ok
      /\ wrap[last'.target] # NULL)
     => LET w == last'.target
            v == inner_from_string(InnerType(w), last'.text).val
        IN /\ last'.outcome = "ok" /\ last'.strategy = "reuse"
           /\ wrap' = wrap
           /\ live' = live
           /\ mem' = [mem EXCEPT ![wrap[w]] = v]]_vars

C5_Witness ==
  /\ last.op = "traits_from_string" /\ last.strategy = "reuse"
  /\ last.target = "s1" /\ last.pre = wrap["s1"]
  /\ wrap["s2"] = wrap["s1"]
  /\ mem[wrap["s1"]] = -1

\* What C6 says of one enum T: to_string is the underlying type's
\* to_string, from_string is the underlying type's from_string with no range
\* check, and from_string(to_string(v)) = v.
EnumAsUnderlying(T) ==
  LET U == UnderlyingType(T) IN
  /\ (last.op = "to_string" /\ last.target = T)
     => /\ last.outcome = "ok"
        /\ last.ret = underlying_to_string(U, ScalarVal(T))
        /\ enum_from_string(T, Txt(last.ret), ScalarVal(T))
             = [outcome |-> "ok", obj |-> ScalarVal(T)]
  /\ (last.op = "pqxx_from_string" /\ last.target = T /\ ~last.text.null)
     => LET p == underlying_from_string(U, last.text.s) IN
        IF p.ok THEN last.outcome = "ok" /\ ScalarVal(T) = p.val
        ELSE last.outcome = "conversion_error"

EnumAnchors ==
  /\ int_to_string(0) = <<"0">> /\ int_to_string(2) = <<"2">>
  /\ int_from_string(<<"2">>) = Ok(2)
  /\ uint_to_string(UInt(2)) = <<"2">>
  /\ uint_from_string(<<"2">>) = Ok(UInt(2))

\* The enum that is not T.
OtherEnum(T) == IF T = "colour" THEN "weather" ELSE "colour"

\* C6: each enum converts exactly as its underlying integer: to_string
\* returns the integer's text, from_string stores the parsed integer with no
\* range check, an integer that names no enumerator included, and
\* from_string(to_string(v)) = v; and the class enum weather behaves as the
\* plain enum colour does: a text given to one ends the same way when given
\* to the other.
C6_EnumAsInteger ==
  /\ EnumAnchors
  /\ \A T \in {"colour", "weather"} :
       /\ EnumAsUnderlying(T)
       /\ (last.op = "pqxx_from_string" /\ last.target = T /\ ~last.text.null)
          => enum_from_string(OtherEnum(T), last.text,
                              ScalarVal(OtherEnum(T))).outcome = last.outcome

\* C7: to_string(true) is "true" and to_string(false) is "false";
\* from_string yields true for exactly true, TRUE, t, T, 1 and false for
\* exactly false, FALSE, f, F, 0; any other text is a parse failure.
C7_BoolGrammar ==
  LET yes == { <<"t","r","u","e">>, <<"T","R","U","E">>, <<"t">>, <<"T">>, <<"1">> }
      no == { <<"f","a","l","s","e">>, <<"F","A","L","S","E">>, <<"f">>, <<"F">>,
              <<"0">> }
  IN /\ (last.op = "to_string" /\ last.target = "bool")
        => last.ret = IF bvar THEN <<"t","r","u","e">> ELSE <<"f","a","l","s","e">>
     /\ (last.op = "pqxx_from_string" /\ last.target = "bool" /\ ~last.text.null)
        => /\ last.text.s \in yes => (last.outcome = "ok" /\ bvar = TRUE)
           /\ last.text.s \in no => (last.outcome = "ok" /\ bvar = FALSE)
           /\ last.text.s \notin (yes \cup no) => last.outcome = "conversion_error"

C7_Witness ==
  /\ last.op = "pqxx_from_string" /\ last.target = "bool"
  /\ last.text = Txt(<<"t", " ">>)
  /\ last.outcome = "conversion_error"

\* C8 as stated: for every wrapper kind, raw pointers included, from_string
\* with well-formed text on an empty wrapper leaves it holding the parsed
\* value, built by the one applicable make_optional overload.
C8_EveryKindConstructs ==
  (/\ last.op = "traits_from_string"
   /\ last.target \in Wrappers
   /\ ~last.text.null
   /\ inner_from_string(InnerType(last.target), last.text).ok
   /\ last.pre = NULL)
  => /\ last.outcome = "ok"
     /\ wrap[last.target] \in live
     /\ mem[wrap[last.target]]
          = inner_from_string(InnerType(last.target), last.text).val
     /\ Cardinality(make_optional_overloads(TypeOf(last.target))) = 1
     /\ last.strategy \in make_optional_overloads(TypeOf(last.target))

\* C8, amended: for optional, unique_ptr and shared_ptr, from_string with
\* well-formed text on an empty wrapper leaves it holding a fresh instance
\* equal to the parsed value, built by the one applicable make_optional
\* overload (direct, unique, shared); for a raw pointer no overload applies
\* and the call is ill-formed.
C8_Constructs ==
  [][(/\ last'.op = "traits_from_string"
      /\ last'.target \in Wrappers
      /\ ~last'.text.null
      /\ inner_from_string(InnerType(last'.target), last'.text).ok
      /\ wrap[last'.target] = NULL)
     => LET w == last'.target
            v == inner_from_string(InnerType(w), last'.text).val
            over == make_optional_overloads(TypeOf(w))
        IN IF Kind(w) = "raw_ptr"
           THEN /\ over = {}
                /\ last'.outcome = "ill_formed"
                /\ UNCHANGED <<wrap, mem, live>>
           ELSE /\ over = { CASE Kind(w) = "optional" -> "direct"
                              [] Kind(w) = "unique_ptr" -> "unique"
                              [] Kind(w) = "shared_ptr" -> "shared" }
                /\ last'.outcome = "ok"
                /\ last'.strategy \in over
                /\ wrap'[w] # NULL
                /\ wrap'[w] \notin live
                /\ wrap'[w] \in live'
                /\ mem'[wrap'[w]] = v
                /\ \A x \in Wrappers \ {w} : wrap'[x] = wrap[x]]_vars

C8_Witness ==
  /\ last.op = "traits_from_string" /\ last.strategy = "unique"
  /\ last.target = "u" /\ last.pre = NULL
  /\ wrap["u"] \in live /\ mem[wrap["u"]] = 7

\* C9: after any copies and parses, every wrapper sees the value it would
\* see had each parse assigned a newly constructed wrapper to its target.
C9_SameAsReconstruction ==
  \A w \in Wrappers :
    (Valid(w, Cur) /\ Valid(w, CurR)) => Obs(w, Cur) = Obs(w, CurR)

\* C10: when the contained type's, or the underlying integer's, from_string
\* fails on non-null text, the failure is propagated and the target is as
\* it was before the call.
C10_FailedParseKeepsTarget ==
  [][(/\ last'.op \in FromStringOps
      /\ last'.target \in Wrappers \cup {"colour"}
      /\ last'.outcome # "ill_formed"
      /\ ~last'.text.null
      /\ IF last'.target = "colour"
         THEN ~underlying_from_string(UnderlyingType("colour"), last'.text.s).ok
         ELSE ~inner_from_string(InnerType(last'.target), last'.text).ok)
     => /\ last'.outcome = "conversion_error"
        /\ UNCHANGED <<wrap, mem, live, col>>]_vars

C10_Witness ==
  /\ last.outcome = "conversion_error"
  /\ last.target = "u" /\ last.pre # NULL
  /\ wrap["u"] = last.pre /\ mem[wrap["u"]] = 7

====
